---- MODULE Spec2Model ----
(***************************************************************************)
(* Model of the tone-assist real-time analyser core:                       *)
(*   - the filter parameter store (src/src/stores/audioStore.ts),          *)
(*   - the per-channel silence detector (useSilenceDetector),              *)
(*   - the audio session life cycle (useAudioGraph start/stop) and the     *)
(*     draw loop tick that feeds the silence detector,                     *)
(*   - the channel mode of the store, the analyser-to-merger routing and   *)
(*     the filter nodes of the audio graph (useAudioGraph),                *)
(*   - the animation frame loop of the canvas (useRtaCanvas),              *)
(*   - the logarithmic bands and their aggregation (utils/logBands).       *)
(* Frequencies are Hz as integers, times are milliseconds as integers.     *)
(***************************************************************************)
EXTENDS Integers, Sequences, FiniteSets, TLC

VARIABLES
    hpfCutoff,            \* audioStore.hpfCutoff
    lpfCutoff,            \* audioStore.lpfCutoff
    fixedDistanceEnabled, \* audioStore.fixedDistanceEnabled
    fixedDistance,        \* audioStore.fixedDistance
    silenceState,         \* useSilenceDetector.silenceState
    activeChannels,       \* useSilenceDetector.activeChannels (= last returned value)
    now,                  \* performance.now() at the last reading
    audioCtx,             \* useAudioGraph.audioCtx: its state, or "none" for null
    closing,              \* audioCtx.close() was called and has not completed yet
    analysers,            \* the four analyser refs are set (init ran to the end)
    isInitialized,        \* audioStore.isInitialized
    isStarted,            \* audioStore.isStarted
    hasPermission,        \* audioStore.hasPermission
    startPc,              \* position of the running start() call
    channelMode,          \* audioStore.channelMode
    inputChannelCount,    \* audioStore.inputChannelCount
    storeActiveChannels,  \* audioStore.activeChannels
    connections,          \* useAudioGraph: <<output analyser, merger input>> pairs connected
    hpfNodes,             \* useAudioGraph: per channel, frequency.value of each HPF stage
    lpfNodes,             \* useAudioGraph: per channel, frequency.value of each LPF stage
    animation,            \* useRtaCanvas: animationId, lastDrawTime and the browser's pending frame requests
    lastOp,               \* history: name of the last operation
    storeOps,             \* history: number of store operations so far
    lastData,             \* history: per channel, what the last tick supplied
    runStart,             \* history: per channel, time of the first tick of the current below-threshold run
    prevSilence,          \* history: silenceState before the last operation
    session,              \* history: "none" | "first" | "stopped" | "restarting" | "restarted" | "ticking"
    lastArg,              \* history: argument of the last filter operation (a number or a preset), or NULL
    prevStore,            \* history: the filter parameters before the last filter operation
    lastResult,           \* history: what the last getEffectiveChannelMode call returned
    lastRouting,          \* history: argument, effective mode and connect calls of the last updateAudioRouting
    lastTick,             \* history: what the last draw loop tick computed, compared, routed and drew
    animationHistory,     \* history: when stopAnimation was called, the last frame, frames run after the stop
    lastBands,            \* history: arguments and result of the last makeLogBands call
    lastAggregate         \* history: arguments and results of the last aggregateBands calls

vars == <<hpfCutoff, lpfCutoff, fixedDistanceEnabled, fixedDistance,
          silenceState, activeChannels, now,
          audioCtx, closing, analysers, isInitialized, isStarted, hasPermission, startPc,
          channelMode, inputChannelCount, storeActiveChannels,
          connections, hpfNodes, lpfNodes,
          lastOp, storeOps, lastData, runStart, prevSilence, session,
          lastArg, prevStore, lastResult, lastRouting, lastTick,
          animation, animationHistory, lastBands, lastAggregate>>

storeVars == <<hpfCutoff, lpfCutoff, fixedDistanceEnabled, fixedDistance>>
detectorVars == <<silenceState, activeChannels, now>>
sessionVars == <<audioCtx, closing, analysers, isInitialized, isStarted, hasPermission, startPc>>
detectorHistory == <<lastData, runStart, prevSilence>>
sessionHistory == <<session>>
channelVars == <<channelMode, inputChannelCount, storeActiveChannels>>
routingVars == <<connections, lastRouting>>
nodeVars == <<hpfNodes, lpfNodes>>
storeHistory == <<lastArg, prevStore>>
drawHistory == <<lastResult, lastTick>>
loopVars == <<animation, animationHistory>>
bandVars == <<lastBands, lastAggregate>>

----------------------------------------------------------------------------
(* Bounds of the model *)

\* number of filter parameter operations in one behaviour
MaxStoreOps == 4
\* the clock stops advancing here
MaxTime == 1000
\* number of bins of a modelled spectrum
SpectrumLen == 2
\* animation frames the browser is asked for
MaxFrames == 4

----------------------------------------------------------------------------
(* Constants of the program *)

minFilterDistance == 10
SILENCE_DURATION_MS == 500
\* SILENCE_THRESHOLD_DB = -60 as squared linear magnitude, in units of 10^-10:
\* (10^(-60/20))^2 = 10^-6 = 10000 * 10^-10
SILENCE_THRESHOLD_POWER == 10000

NULL == -1
Channels == {"left", "right"}
Other(c) == IF c = "left" THEN "right" ELSE "left"

Max(a, b) == IF a >= b THEN a ELSE b
Min(a, b) == IF a <= b THEN a ELSE b

FILTER_PRESETS ==
    << [name |-> "Voice",   hpf |-> 300,  lpf |-> 3400],
       [name |-> "Bass",    hpf |-> 20,   lpf |-> 250],
       [name |-> "Mid",     hpf |-> 250,  lpf |-> 4000],
       [name |-> "Treble",  hpf |-> 4000, lpf |-> 20000],
       [name |-> "Kick",    hpf |-> 40,   lpf |-> 100],
       [name |-> "Snare",   hpf |-> 150,  lpf |-> 6000],
       [name |-> "Cymbals", hpf |-> 6000, lpf |-> 20000],
       [name |-> "Wide",    hpf |-> 20,   lpf |-> 20000] >>

----------------------------------------------------------------------------
(* Inputs *)

\* arguments a caller of the store may pass: below 20, above 20000, in range
AnyFrequencies == {-100, 5, 20, 80, 8080, 15000, 20000, 30000}
\* arguments a clamped drag yields: logXToFrequency of x in [0, width]
DragFrequencies == {20, 80, 1000, 8080, 15000, 20000}
\* presets a caller may pass besides the built-in ones
AnyPresets == { [name |-> "low",      hpf |-> 5,     lpf |-> 30000],
                [name |-> "narrow",   hpf |-> 100,   lpf |-> 105],
                [name |-> "inverted", hpf |-> 12000, lpf |-> 80],
                FILTER_PRESETS[4], FILTER_PRESETS[7], FILTER_PRESETS[8] }
BuiltinPresets == { FILTER_PRESETS[i] : i \in 1..Len(FILTER_PRESETS) }
AnyDistances == {5, 10, 1000, 11920, 30000}
\* dB values of one bin; a spectrum is SpectrumLen bins, or NoSpectrum for null
BinLevels == {-100, -60, -40}
Spectra == [1..SpectrumLen -> BinLevels]
NoSpectrum == <<>>
\* the spectra the draw loop is fed with: every bin at the same level
FlatSpectra == { [i \in 1..SpectrumLen |-> v] : v \in BinLevels }
\* milliseconds between two readings of performance.now()
Steps == {0, 200, 300}

----------------------------------------------------------------------------
(* audioStore: the filter parameter operations *)

\* variants of the store operations with a plausible slip each
\* fixed mode clamps the high-pass cutoff to 20000, not to 20000 - fixedDistance
setHpfCutoff_clampTo20000(frequency) ==
    IF fixedDistanceEnabled
    THEN LET newHpf == Max(20, Min(20000, frequency))
             newLpf == newHpf + fixedDistance
         IN  /\ hpfCutoff' = newHpf
             /\ lpfCutoff' = Min(20000, newLpf)
             /\ UNCHANGED <<fixedDistanceEnabled, fixedDistance>>
    ELSE LET maxHpf == lpfCutoff - minFilterDistance
         IN  /\ hpfCutoff' = Max(20, Min(maxHpf, frequency))
             /\ UNCHANGED <<lpfCutoff, fixedDistanceEnabled, fixedDistance>>

setHpfCutoff(frequency) ==
    IF fixedDistanceEnabled
    THEN LET newHpf == Max(20, Min(20000 - fixedDistance, frequency))
             newLpf == newHpf + fixedDistance
         IN  /\ hpfCutoff' = newHpf
             /\ lpfCutoff' = Min(20000, newLpf)
             /\ UNCHANGED <<fixedDistanceEnabled, fixedDistance>>
    ELSE LET maxHpf == lpfCutoff - minFilterDistance
         IN  /\ hpfCutoff' = Max(20, Min(maxHpf, frequency))
             /\ UNCHANGED <<lpfCutoff, fixedDistanceEnabled, fixedDistance>>

\* free mode clamps the low-pass cutoff to [20, 20000], whatever hpfCutoff is
setLpfCutoff_noMinDistance(frequency) ==
    IF fixedDistanceEnabled
    THEN LET newLpf == Max(fixedDistance + 20, Min(20000, frequency))
             newHpf == newLpf - fixedDistance
         IN  /\ lpfCutoff' = newLpf
             /\ hpfCutoff' = Max(20, newHpf)
             /\ UNCHANGED <<fixedDistanceEnabled, fixedDistance>>
    ELSE /\ lpfCutoff' = Max(20, Min(20000, frequency))
         /\ UNCHANGED <<hpfCutoff, fixedDistanceEnabled, fixedDistance>>

setLpfCutoff(frequency) ==
    IF fixedDistanceEnabled
    THEN LET newLpf == Max(fixedDistance + 20, Min(20000, frequency))
             newHpf == newLpf - fixedDistance
         IN  /\ lpfCutoff' = newLpf
             /\ hpfCutoff' = Max(20, newHpf)
             /\ UNCHANGED <<fixedDistanceEnabled, fixedDistance>>
    ELSE LET minLpf == hpfCutoff + minFilterDistance
         IN  /\ lpfCutoff' = Max(minLpf, Min(20000, frequency))
             /\ UNCHANGED <<hpfCutoff, fixedDistanceEnabled, fixedDistance>>

\* enabling keeps fixedDistance and moves lpfCutoff to hpfCutoff + fixedDistance
toggleFixedDistance_snapLpf ==
    /\ fixedDistanceEnabled' = ~fixedDistanceEnabled
    /\ lpfCutoff' = IF fixedDistanceEnabled'
                    THEN Min(20000, hpfCutoff + fixedDistance)
                    ELSE lpfCutoff
    /\ UNCHANGED <<hpfCutoff, fixedDistance>>

toggleFixedDistance ==
    /\ fixedDistanceEnabled' = ~fixedDistanceEnabled
    /\ fixedDistance' = IF fixedDistanceEnabled'
                        THEN Max(minFilterDistance, lpfCutoff - hpfCutoff)
                        ELSE fixedDistance
    /\ UNCHANGED <<hpfCutoff, lpfCutoff>>

setFixedDistance(distance) ==
    /\ fixedDistance' = Max(minFilterDistance, distance)
    /\ UNCHANGED <<hpfCutoff, lpfCutoff, fixedDistanceEnabled>>

\* fixed mode takes the preset's own low-pass cutoff
applyPreset_presetGap(preset) ==
    /\ hpfCutoff' = preset.hpf
    /\ lpfCutoff' = preset.lpf
    /\ UNCHANGED <<fixedDistanceEnabled, fixedDistance>>

applyPreset(preset) ==
    IF fixedDistanceEnabled
    THEN LET currentDistance == lpfCutoff - hpfCutoff
         IN  /\ hpfCutoff' = preset.hpf
             /\ lpfCutoff' = preset.hpf + currentDistance
             /\ UNCHANGED <<fixedDistanceEnabled, fixedDistance>>
    ELSE /\ hpfCutoff' = preset.hpf
         /\ lpfCutoff' = preset.lpf
         /\ UNCHANGED <<fixedDistanceEnabled, fixedDistance>>

----------------------------------------------------------------------------
(* useSilenceDetector *)

DefaultSilence == [c \in Channels |-> [isSilent |-> FALSE, silenceStartTime |-> NULL]]

\* dbToLinear(db)^2 in units of 10^-10, for db a multiple of 10 in [-100, 0]
dbToPower(db) == 10 ^ ((db + 100) \div 10)

RECURSIVE SumPower(_, _)
SumPower(freqData, i) ==
    IF i > Len(freqData) THEN 0
    ELSE dbToPower(freqData[i]) + SumPower(freqData, i + 1)

\* rmsDb < SILENCE_THRESHOLD_DB, with rmsDb = 20 * log10(max(1e-10, sqrt(sum / length))):
\* the level is below -60 dB exactly when the mean square is below 10^-6
isBelowThreshold(freqData) ==
    SumPower(freqData, 1) < SILENCE_THRESHOLD_POWER * Len(freqData)

\* variants of updateChannelActivity with a plausible slip each
\* the duration test is strict
updateChannelActivity_strictDuration(channelState, freqData, currentTime) ==
    IF isBelowThreshold(freqData)
    THEN IF channelState.silenceStartTime = NULL
         THEN [isSilent |-> FALSE, silenceStartTime |-> currentTime]
         ELSE LET silenceDuration == currentTime - channelState.silenceStartTime
              IN  IF silenceDuration > SILENCE_DURATION_MS /\ ~channelState.isSilent
                  THEN [channelState EXCEPT !.isSilent = TRUE]
                  ELSE channelState
    ELSE [isSilent |-> FALSE, silenceStartTime |-> NULL]

\* the duration is taken from the clock instead of from the start of the run
updateChannelActivity_absoluteTime(channelState, freqData, currentTime) ==
    IF isBelowThreshold(freqData)
    THEN IF channelState.silenceStartTime = NULL
         THEN [isSilent |-> FALSE, silenceStartTime |-> currentTime]
         ELSE LET silenceDuration == currentTime
              IN  IF silenceDuration >= SILENCE_DURATION_MS /\ ~channelState.isSilent
                  THEN [channelState EXCEPT !.isSilent = TRUE]
                  ELSE channelState
    ELSE [isSilent |-> FALSE, silenceStartTime |-> NULL]

\* recovery clears isSilent but keeps the start time
updateChannelActivity_keepStart(channelState, freqData, currentTime) ==
    IF isBelowThreshold(freqData)
    THEN IF channelState.silenceStartTime = NULL
         THEN [isSilent |-> FALSE, silenceStartTime |-> currentTime]
         ELSE LET silenceDuration == currentTime - channelState.silenceStartTime
              IN  IF silenceDuration >= SILENCE_DURATION_MS /\ ~channelState.isSilent
                  THEN [channelState EXCEPT !.isSilent = TRUE]
                  ELSE channelState
    ELSE [channelState EXCEPT !.isSilent = FALSE]

\* the state of one channel after updateChannelActivity; it returns ~isSilent
\* a level back above the threshold clears the start time only
updateChannelActivity_keepSilent(channelState, freqData, currentTime) ==
    IF isBelowThreshold(freqData)
    THEN IF channelState.silenceStartTime = NULL
         THEN [isSilent |-> FALSE, silenceStartTime |-> currentTime]
         ELSE LET silenceDuration == currentTime - channelState.silenceStartTime
              IN  IF silenceDuration >= SILENCE_DURATION_MS /\ ~channelState.isSilent
                  THEN [channelState EXCEPT !.isSilent = TRUE]
                  ELSE channelState
    ELSE [channelState EXCEPT !.silenceStartTime = NULL]

\* a tick before the duration has elapsed restarts the measurement
updateChannelActivity_restartClock(channelState, freqData, currentTime) ==
    IF isBelowThreshold(freqData)
    THEN IF channelState.silenceStartTime = NULL
         THEN [isSilent |-> FALSE, silenceStartTime |-> currentTime]
         ELSE LET silenceDuration == currentTime - channelState.silenceStartTime
              IN  IF silenceDuration >= SILENCE_DURATION_MS /\ ~channelState.isSilent
                  THEN [channelState EXCEPT !.isSilent = TRUE]
                  ELSE IF channelState.isSilent THEN channelState
                  ELSE [channelState EXCEPT !.silenceStartTime = currentTime]
    ELSE [isSilent |-> FALSE, silenceStartTime |-> NULL]

updateChannelActivity(channelState, freqData, currentTime) ==
    IF isBelowThreshold(freqData)
    THEN IF channelState.silenceStartTime = NULL
         THEN [isSilent |-> FALSE, silenceStartTime |-> currentTime]
         ELSE LET silenceDuration == currentTime - channelState.silenceStartTime
              IN  IF silenceDuration >= SILENCE_DURATION_MS /\ ~channelState.isSilent
                  THEN [channelState EXCEPT !.isSilent = TRUE]
                  ELSE channelState
    ELSE [isSilent |-> FALSE, silenceStartTime |-> NULL]

\* variants of updateSilenceDetection with a plausible slip each
\* nothing is forced when both channels are inactive
updateSilenceDetection_noForce(leftFreqData, rightFreqData, currentTime) ==
    LET leftState == IF leftFreqData # NoSpectrum
                     THEN updateChannelActivity(silenceState["left"], leftFreqData, currentTime)
                     ELSE silenceState["left"]
        rightState == IF rightFreqData # NoSpectrum
                      THEN updateChannelActivity(silenceState["right"], rightFreqData, currentTime)
                      ELSE silenceState["right"]
        left == IF leftFreqData # NoSpectrum THEN ~leftState.isSilent ELSE FALSE
        right == IF rightFreqData # NoSpectrum THEN ~rightState.isSilent ELSE FALSE
    IN  /\ silenceState' = [left |-> leftState, right |-> rightState]
        /\ activeChannels' = [left |-> left, right |-> right]

\* left is forced without looking at the spectra
updateSilenceDetection_forceLeftAlways(leftFreqData, rightFreqData, currentTime) ==
    LET leftState == IF leftFreqData # NoSpectrum
                     THEN updateChannelActivity(silenceState["left"], leftFreqData, currentTime)
                     ELSE silenceState["left"]
        rightState == IF rightFreqData # NoSpectrum
                      THEN updateChannelActivity(silenceState["right"], rightFreqData, currentTime)
                      ELSE silenceState["right"]
        left == IF leftFreqData # NoSpectrum THEN ~leftState.isSilent ELSE FALSE
        right == IF rightFreqData # NoSpectrum THEN ~rightState.isSilent ELSE FALSE
        newActiveChannels ==
            IF ~left /\ ~right
            THEN [left |-> TRUE, right |-> right]
            ELSE [left |-> left, right |-> right]
    IN  /\ silenceState' = [left |-> leftState, right |-> rightState]
        /\ activeChannels' = newActiveChannels

updateSilenceDetection(leftFreqData, rightFreqData, currentTime) ==
    LET leftState == IF leftFreqData # NoSpectrum
                     THEN updateChannelActivity(silenceState["left"], leftFreqData, currentTime)
                     ELSE silenceState["left"]
        rightState == IF rightFreqData # NoSpectrum
                      THEN updateChannelActivity(silenceState["right"], rightFreqData, currentTime)
                      ELSE silenceState["right"]
        left == IF leftFreqData # NoSpectrum THEN ~leftState.isSilent ELSE FALSE
        right == IF rightFreqData # NoSpectrum THEN ~rightState.isSilent ELSE FALSE
        newActiveChannels ==
            IF ~left /\ ~right
            THEN IF leftFreqData # NoSpectrum THEN [left |-> TRUE, right |-> right]
                 ELSE IF rightFreqData # NoSpectrum THEN [left |-> left, right |-> TRUE]
                 ELSE [left |-> left, right |-> right]
            ELSE [left |-> left, right |-> right]
    IN  /\ silenceState' = [left |-> leftState, right |-> rightState]
        /\ activeChannels' = newActiveChannels

reset ==
    /\ silenceState' = DefaultSilence
    /\ activeChannels' = [left |-> TRUE, right |-> FALSE]

----------------------------------------------------------------------------
(* audioStore: the channel mode *)

ChannelModes == {"auto", "mono", "stereo"}
\* channel counts a stream reports (a missing count reads as 1)
ChannelCounts == {1, 2}
\* channel counts a caller of the store may pass
AnyChannelCounts == {0, 1, 2, 6}
AnyActiveChannels == [left : BOOLEAN, right : BOOLEAN]

\* the filter parameters of the store, as one record
FilterParameters ==
    [hpf |-> hpfCutoff, lpf |-> lpfCutoff,
     enabled |-> fixedDistanceEnabled, distance |-> fixedDistance]

setActiveChannels(channels) == storeActiveChannels' = channels
setChannelMode(mode) == channelMode' = mode
setInputChannelCount(count) == inputChannelCount' = count

\* variant: auto looks at the activity only, not at the input channel count
getEffectiveChannelMode_ignoreCount ==
    IF channelMode = "mono" THEN "mono"
    ELSE IF channelMode = "stereo" THEN "stereo"
    ELSE IF storeActiveChannels.left /\ storeActiveChannels.right
         THEN "stereo"
         ELSE "mono"

getEffectiveChannelMode ==
    IF channelMode = "mono" THEN "mono"
    ELSE IF channelMode = "stereo" THEN "stereo"
    ELSE IF inputChannelCount >= 2 /\ storeActiveChannels.left /\ storeActiveChannels.right
         THEN "stereo"
         ELSE "mono"

----------------------------------------------------------------------------
(* useAudioGraph: routing of the output analysers to the channel merger *)

\* number of cascaded stages of each filter, per channel
FilterStages == 4

NoRouting ==
    [arg |-> [left |-> FALSE, right |-> FALSE], mode |-> "none", connects |-> {}]

NoTick ==
    [previous |-> [left |-> TRUE, right |-> FALSE],
     computed |-> [left |-> TRUE, right |-> FALSE],
     routed |-> FALSE, mode |-> "none", drawn |-> "none"]

\* analyser.connect(channelMerger, 0, input) for both merger inputs
Both(c) == {<<c, 0>>, <<c, 1>>}

ConnectedTo(conns, c) == { x \in conns : x[1] = c }

\* the try block: disconnect(channelMerger) of an analyser that has no
\* connection to the merger raises, and the rest of the block is skipped
disconnectAll(conns) ==
    IF ConnectedTo(conns, "left") = {} THEN conns
    ELSE IF ConnectedTo(conns, "right") = {} THEN conns \ ConnectedTo(conns, "left")
    ELSE {}

\* variant: stereo duplicates a lone active side as mono does
routingPlan_stereoDuplicates(ac, effectiveMode) ==
    IF ac.left /\ ~ac.right THEN Both("left")
    ELSE IF ac.right /\ ~ac.left THEN Both("right")
    ELSE IF effectiveMode = "mono"
         THEN IF ac.left THEN Both("left") ELSE {}
         ELSE (IF ac.left THEN {<<"left", 0>>} ELSE {})
              \cup (IF ac.right THEN {<<"right", 1>>} ELSE {})

\* the connect calls updateAudioRouting makes for an argument and a mode
routingPlan(ac, effectiveMode) ==
    IF effectiveMode = "mono"
    THEN IF ac.left /\ ~ac.right THEN Both("left")
         ELSE IF ac.right /\ ~ac.left THEN Both("right")
         ELSE IF ac.left THEN Both("left")
         ELSE {}
    ELSE (IF ac.left THEN {<<"left", 0>>} ELSE {})
         \cup (IF ac.right THEN {<<"right", 1>>} ELSE {})

\* updateAudioRouting(ac), called when the store and the graph are as in the
\* primed state: it reads the effective mode from the store at that moment
updateAudioRouting(ac) ==
    IF ~analysers'
    THEN UNCHANGED <<connections, lastRouting>>
    ELSE LET effectiveMode == getEffectiveChannelMode'
             plan == routingPlan(ac, effectiveMode)
         IN  /\ connections' = disconnectAll(connections) \cup plan
             /\ lastRouting' = [arg |-> ac, mode |-> effectiveMode, connects |-> plan]

----------------------------------------------------------------------------
(* useAudioGraph: the filter nodes *)

\* init(): FilterStages nodes are pushed to each array with the store's cutoffs
createFilterNodes ==
    /\ hpfNodes' = [c \in Channels |->
                        hpfNodes[c] \o [i \in 1..FilterStages |-> hpfCutoff]]
    /\ lpfNodes' = [c \in Channels |->
                        lpfNodes[c] \o [i \in 1..FilterStages |-> lpfCutoff]]

\* node.frequency.value = value for every node of the array, both channels
SetAll(nodes, value) ==
    [c \in Channels |->
        IF nodes[c] = <<>> THEN <<>> ELSE [i \in 1..Len(nodes[c]) |-> value]]

\* useAudioGraph.setHpfCutoff: the store setter, then the HPF nodes only
graphSetHpfCutoff(frequency) ==
    /\ setHpfCutoff(frequency)
    /\ hpfNodes' = SetAll(hpfNodes, hpfCutoff')
    /\ UNCHANGED lpfNodes

\* useAudioGraph.setLpfCutoff: the store setter, then the LPF nodes only
graphSetLpfCutoff(frequency) ==
    /\ setLpfCutoff(frequency)
    /\ lpfNodes' = SetAll(lpfNodes, lpfCutoff')
    /\ UNCHANGED hpfNodes

\* updateAllFilterNodes(): every stage of both channels takes the store's cutoffs
updateAllFilterNodes ==
    /\ hpfNodes' = SetAll(hpfNodes, hpfCutoff')
    /\ lpfNodes' = SetAll(lpfNodes, lpfCutoff')

----------------------------------------------------------------------------
(* utils/logBands *)

NoBands == [fMin |-> 0, fMax |-> 0, bands |-> 0, edges |-> <<>>]
NoAggregate == [data |-> <<>>, sampleRate |-> 0, fftSize |-> 0, bands |-> <<>>,
                ranges |-> <<>>, mean |-> <<>>, max |-> <<>>, rms |-> <<>>]

\* makeLogBands computes in binary floating point. The model keeps the
\* arithmetic and shortens the significand from 53 bits to Precision bits: a
\* number is the integer count of units of 2^-(Precision - 1) it holds, every
\* number of the computation is at least 1, and a float is a number whose
\* significand fits in Precision bits.
Precision == 4
One == 2 ^ (Precision - 1)

RECURSIVE Ulp(_)
Ulp(q) == IF q < 2 * One THEN 1 ELSE 2 * Ulp(q \div 2)

\* round to nearest, ties to even, of the rational num / den (in units)
Round(num, den) ==
    LET q == num \div den
        u == Ulp(q)
        lo == (q \div u) * u
        hi == lo + u
    IN  IF 2 * num < (lo + hi) * den THEN lo
        ELSE IF 2 * num > (lo + hi) * den THEN hi
        ELSE IF (lo \div u) % 2 = 0 THEN lo ELSE hi

\* a / b, a * b and Math.sqrt(a), correctly rounded
fdiv(a, b) == Round(a * One, b)
fmul(a, b) == Round(a * b, One)
RECURSIVE ISqrt(_, _, _)
ISqrt(x, lo, hi) ==
    IF lo = hi THEN lo
    ELSE LET mid == (lo + hi + 1) \div 2
         IN  IF mid * mid <= x THEN ISqrt(x, mid, hi) ELSE ISqrt(x, lo, mid - 1)

fsqrt(a) ==
    LET r == ISqrt(a * One, 0, Min(a, 46340))
        u == Ulp(r)
        lo == (r \div u) * u
        hi == lo + u
    IN  IF 4 * a * One < (lo + hi) * (lo + hi) THEN lo
        ELSE IF 4 * a * One > (lo + hi) * (lo + hi) THEN hi
        ELSE IF (lo \div u) % 2 = 0 THEN lo ELSE hi

RECURSIVE IntPow(_, _)
IntPow(x, n) == IF n = 0 THEN 1 ELSE x * IntPow(x, n - 1)

\* the floats: numbers whose significand fits
FloatsBetween(a, b) == {x \in a..b : x % Ulp(x) = 0}
Pred(x) == CHOOSE y \in FloatsBetween(x \div 2, x - 1) : \A z \in FloatsBetween(x \div 2, x - 1) : z <= y

\* Math.pow(ratio, i / bands) for ratio >= 1. An exponent of 0 gives 1 and an
\* exponent of 1 gives ratio. Any other result is implementation-approximated,
\* and the exponent i / bands is itself rounded: the result is one of the
\* floats next to the real power, within [1, ratio].
powResults(ratio, i, bands) ==
    IF i = 0 THEN {One}
    ELSE IF i = bands THEN {ratio}
    ELSE LET below == {x \in FloatsBetween(One, ratio) :
                          IntPow(x, bands) * IntPow(One, i) <= IntPow(ratio, i) * IntPow(One, bands)}
             lo == CHOOSE x \in below : \A y \in below : y <= x
             hi == IF IntPow(lo, bands) * IntPow(One, i) = IntPow(ratio, i) * IntPow(One, bands)
                   THEN lo ELSE lo + Ulp(lo)
         IN  {x \in {Pred(lo), lo, hi, hi + Ulp(hi)} : One <= x /\ x <= ratio}

\* Math.pow is a function: one result for each exponent of a call. Element
\* i + 1 of a table is Math.pow(ratio, i / bands).
RECURSIVE PowTablesUpTo(_, _, _)
PowTablesUpTo(ratio, bands, i) ==
    IF i < 0 THEN {<<>>}
    ELSE {Append(t, x) : t \in PowTablesUpTo(ratio, bands, i - 1),
                         x \in powResults(ratio, i, bands)}

BandCounts == {1, 2, 3}
\* fMin and fMax: the integers 1..16, all of them floats
BandLimits == {One * f : f \in 1..16}

makeLogBands_centerIsSum(fMin, fMax, bands, pw) ==
    [j \in 1..bands |->
        LET fLow == fmul(fMin, pw[j])
            fHigh == fmul(fMin, pw[j + 1])
        IN  [fLow |-> fLow, fHigh |-> fHigh,
             fCenter |-> Round(fLow + fHigh, 1)]]

\* band j of the model is band i = j - 1 of the code; pw is Math.pow(ratio, .)
makeLogBands(fMin, fMax, bands, pw) ==
    [j \in 1..bands |->
        LET fLow == fmul(fMin, pw[j])
            fHigh == fmul(fMin, pw[j + 1])
        IN  [fLow |-> fLow, fHigh |-> fHigh, fCenter |-> fsqrt(fmul(fLow, fHigh))]]

\* A spectrum is a sequence of dB levels, bin k of the code being element k + 1.
\* Levels are integers; -Infinity (a silent bin) and undefined (a read outside
\* the array) are kept apart from every level.
NegInf == -9999
Undefined == 9999

\* fftSize of an AnalyserNode is a power of two; sample rates and band edges
\* are chosen so that bands fall below bin 1, across bins and above Nyquist
FftSizes == {2, 4, 8}
SampleRates == {4, 8, 16}
BandFreqs == {1, 3, 5, 9}
\* dB levels of a bin: silent, below the display range, inside it, above it
BinDb == {NegInf, -120, -60, 0, 10}

LogBandEdge(lo, hi) == [fLow |-> lo, fHigh |-> hi]
\* one band, or two contiguous bands, each with fLow < fHigh
BandLists ==
    {<<LogBandEdge(t[1], t[2])>> :
        t \in {u \in BandFreqs \X BandFreqs : u[1] < u[2]}} \cup
    {<<LogBandEdge(t[1], t[2]), LogBandEdge(t[2], t[3])>> :
        t \in {u \in BandFreqs \X BandFreqs \X BandFreqs : u[1] < u[2] /\ u[2] < u[3]}}

\* Math.floor((freq / sampleRate) * fftSize), clamped to [0, N - 1]; with a
\* power of two fftSize the product is exact
freqToBin(freq, sampleRate, fftSize) ==
    LET N == fftSize \div 2
        bin == (freq * fftSize) \div sampleRate
    IN  Max(0, Min(N - 1, bin))

\* k0 and k1 of one band
binRange_noForce(band, sampleRate, fftSize) ==
    LET k0 == freqToBin(band.fLow, sampleRate, fftSize)
    IN  [k0 |-> k0, k1 |-> freqToBin(band.fHigh, sampleRate, fftSize)]

binRange(band, sampleRate, fftSize) ==
    LET k0 == freqToBin(band.fLow, sampleRate, fftSize)
    IN  [k0 |-> k0, k1 |-> Max(k0 + 1, freqToBin(band.fHigh, sampleRate, fftSize))]

\* floatFreqData[k]
bin(floatFreqData, k) ==
    IF k + 1 \in 1..Len(floatFreqData) THEN floatFreqData[k + 1] ELSE Undefined

\* A JavaScript number of aggregateBands: NaN, -Infinity, the rational
\* num / den dB, or the level 10 * log10(P) dB of a mean power
\* P = (hi * 10^7 + lo) * 10^-12 / den.
NaN == [k |-> "nan", num |-> 0, den |-> 1, hi |-> 0, lo |-> 0]
MinusInfinity == [k |-> "-inf", num |-> 0, den |-> 1, hi |-> 0, lo |-> 0]
Db(num, den) == [k |-> "db", num |-> num, den |-> den, hi |-> 0, lo |-> 0]
Power(hi, lo, den) == [k |-> "pow", num |-> 0, den |-> den, hi |-> hi, lo |-> lo]

\* linear * linear for a level of db dB (a multiple of 10), in units of 10^-12
UnitsOf(db) ==
    LET e == 12 + db \div 10
    IN  IF e < 0 THEN [hi |-> 0, lo |-> 0]
        ELSE IF e < 7 THEN [hi |-> 0, lo |-> IntPow(10, e)]
        ELSE [hi |-> IntPow(10, e - 7), lo |-> 0]

\* two limbs of 10^7: hi * 10^7 + lo
Carry(u) == [hi |-> u.hi + u.lo \div 10000000, lo |-> u.lo % 10000000]
AddUnits(u, v) == Carry([hi |-> u.hi + v.hi, lo |-> u.lo + v.lo])
TimesUnits(n, u) == Carry([hi |-> n * u.hi, lo |-> n * u.lo])
LessUnits(u, v) == u.hi < v.hi \/ (u.hi = v.hi /\ u.lo < v.lo)

\* a < b of JavaScript: false when either side is NaN
Less(a, b) ==
    CASE a.k = "nan" \/ b.k = "nan" -> FALSE
      [] a.k = "-inf" -> b.k # "-inf"
      [] b.k = "-inf" -> FALSE
      [] a.k = "db" /\ b.k = "db" -> a.num * b.den < b.num * a.den
      [] a.k = "pow" /\ b.k = "db" ->
            LessUnits([hi |-> a.hi, lo |-> a.lo], TimesUnits(a.den, UnitsOf(b.num)))
      [] a.k = "db" /\ b.k = "pow" ->
            LessUnits(TimesUnits(b.den, UnitsOf(a.num)), [hi |-> b.hi, lo |-> b.lo])

MathMin(a, b) ==
    IF a.k = "nan" \/ b.k = "nan" THEN NaN ELSE IF Less(b, a) THEN b ELSE a
MathMax(a, b) ==
    IF a.k = "nan" \/ b.k = "nan" THEN NaN ELSE IF Less(a, b) THEN b ELSE a

RECURSIVE SumBins(_, _, _)
SumBins(floatFreqData, k0, k1) ==
    IF k0 >= k1 THEN 0
    ELSE bin(floatFreqData, k0) + SumBins(floatFreqData, k0 + 1, k1)

RECURSIVE SumSquares(_, _, _)
SumSquares(floatFreqData, k0, k1) ==
    IF k0 >= k1 THEN [hi |-> 0, lo |-> 0]
    ELSE AddUnits(IF bin(floatFreqData, k0) = NegInf
                  THEN [hi |-> 0, lo |-> 0]
                  ELSE UnitsOf(bin(floatFreqData, k0)),
                  SumSquares(floatFreqData, k0 + 1, k1))

BinsRead(floatFreqData, k0, k1) == {bin(floatFreqData, k) : k \in k0..(k1 - 1)}

\* case 'mean': sum / (k1 - k0)
meanValue_dividesByK1(floatFreqData, k0, k1) ==
    IF Undefined \in BinsRead(floatFreqData, k0, k1) THEN NaN
    ELSE IF NegInf \in BinsRead(floatFreqData, k0, k1) THEN MinusInfinity
    ELSE Db(SumBins(floatFreqData, k0, k1), k1)

meanValue(floatFreqData, k0, k1) ==
    IF Undefined \in BinsRead(floatFreqData, k0, k1) THEN NaN
    ELSE IF NegInf \in BinsRead(floatFreqData, k0, k1) THEN MinusInfinity
    ELSE Db(SumBins(floatFreqData, k0, k1), k1 - k0)

\* case 'max': starts at -Infinity; undefined > max is false
maxValue(floatFreqData, k0, k1) ==
    LET levels == BinsRead(floatFreqData, k0, k1) \ {Undefined, NegInf}
    IN  IF levels = {} THEN MinusInfinity
        ELSE Db(CHOOSE x \in levels : \A y \in levels : y <= x, 1)

\* case 'rms': 20 * log10(max(1e-10, sqrt(sumSquares / (k1 - k0))))
rmsValue(floatFreqData, k0, k1) ==
    LET sumSquares == SumSquares(floatFreqData, k0, k1)
    IN  IF Undefined \in BinsRead(floatFreqData, k0, k1) THEN NaN
        ELSE IF sumSquares = [hi |-> 0, lo |-> 0] THEN Db(-200, 1)
        ELSE Power(sumSquares.hi, sumSquares.lo, k1 - k0)

\* result[i] = Math.max(-100, Math.min(0, value))
clampDb_noUpper(value) == MathMax(Db(-100, 1), value)

clampDb(value) == MathMax(Db(-100, 1), MathMin(Db(0, 1), value))

aggregateBands(floatFreqData, sampleRate, fftSize, bands, reducer) ==
    [i \in 1..Len(bands) |->
        LET r == binRange(bands[i], sampleRate, fftSize)
            value == IF r.k1 > r.k0
                     THEN CASE reducer = "mean" -> meanValue(floatFreqData, r.k0, r.k1)
                            [] reducer = "max" -> maxValue(floatFreqData, r.k0, r.k1)
                            [] reducer = "rms" -> rmsValue(floatFreqData, r.k0, r.k1)
                     ELSE Db(-120, 1)
        IN  clampDb(value)]

----------------------------------------------------------------------------
(* Initial state: the store, the detector and the audio graph as constructed *)

Constructed ==
    /\ hpfCutoff = 80
    /\ lpfCutoff = 12000
    /\ fixedDistanceEnabled = FALSE
    /\ fixedDistance = 1000
    /\ silenceState = DefaultSilence
    /\ activeChannels = [left |-> TRUE, right |-> FALSE]
    /\ now = 0
    /\ audioCtx = "none"
    /\ closing = FALSE
    /\ analysers = FALSE
    /\ isInitialized = FALSE
    /\ isStarted = FALSE
    /\ hasPermission = FALSE
    /\ startPc = "idle"
    /\ lastOp = "init"
    /\ storeOps = 0
    /\ lastData = [c \in Channels |-> "none"]
    /\ runStart = [c \in Channels |-> NULL]
    /\ prevSilence = DefaultSilence
    /\ session = "none"
    /\ channelMode = "auto"
    /\ inputChannelCount = 1
    /\ storeActiveChannels = [left |-> TRUE, right |-> FALSE]
    /\ connections = {}
    /\ hpfNodes = [c \in Channels |-> <<>>]
    /\ lpfNodes = [c \in Channels |-> <<>>]
    /\ lastArg = NULL
    /\ prevStore = FilterParameters
    /\ lastResult = "none"
    /\ lastRouting = NoRouting
    /\ lastTick = NoTick
    /\ animation = [animationId |-> 0, pending |-> {}, nextHandle |-> 1,
                    lastDrawTime |-> 0, started |-> FALSE]
    /\ animationHistory = [stopped |-> "no", lastFrame |-> "none",
                           ranAfterStop |-> FALSE, drewAfterStop |-> FALSE]

Init ==
    /\ Constructed
    /\ lastBands = NoBands
    /\ lastAggregate = NoAggregate

----------------------------------------------------------------------------
(* Store operations as actions *)

StoreFrame ==
    /\ storeOps < MaxStoreOps
    /\ storeOps' = storeOps + 1
    /\ prevStore' = FilterParameters
    /\ UNCHANGED <<detectorVars, sessionVars, detectorHistory, sessionHistory>>
    /\ UNCHANGED <<channelVars, routingVars, drawHistory, loopVars, bandVars>>

\* a call of the store itself writes no filter node
StoreOnly == UNCHANGED nodeVars

\* any caller, any argument
SetHpfCutoff ==
    \E f \in AnyFrequencies :
        /\ setHpfCutoff(f) /\ lastOp' = "setHpfCutoff" /\ lastArg' = f
        /\ StoreOnly /\ StoreFrame

SetLpfCutoff ==
    \E f \in AnyFrequencies :
        /\ setLpfCutoff(f) /\ lastOp' = "setLpfCutoff" /\ lastArg' = f
        /\ StoreOnly /\ StoreFrame

ApplyPreset ==
    \E p \in AnyPresets :
        /\ applyPreset(p) /\ lastOp' = "applyPreset" /\ lastArg' = p
        /\ StoreOnly /\ StoreFrame

ToggleFixedDistance ==
    /\ toggleFixedDistance /\ lastOp' = "toggleFixedDistance" /\ lastArg' = NULL
    /\ StoreOnly /\ StoreFrame

SetFixedDistance ==
    \E d \in AnyDistances :
        /\ setFixedDistance(d) /\ lastOp' = "setFixedDistance" /\ lastArg' = d
        /\ StoreOnly /\ StoreFrame

\* what the user interface produces: a clamped drag goes through the setters
\* of useAudioGraph, a click in the preset menu or on the fixed-distance
\* button changes the store and then synchronises the filter nodes
DragHpf ==
    \E f \in DragFrequencies :
        /\ graphSetHpfCutoff(f) /\ lastOp' = "setHpfCutoff" /\ lastArg' = f
        /\ StoreFrame

DragLpf ==
    \E f \in DragFrequencies :
        /\ graphSetLpfCutoff(f) /\ lastOp' = "setLpfCutoff" /\ lastArg' = f
        /\ StoreFrame

ClickPreset ==
    \E p \in BuiltinPresets :
        /\ applyPreset(p) /\ updateAllFilterNodes
        /\ lastOp' = "applyPreset" /\ lastArg' = p
        /\ StoreFrame

ClickFixedDistance ==
    /\ toggleFixedDistance /\ updateAllFilterNodes
    /\ lastOp' = "toggleFixedDistance" /\ lastArg' = NULL
    /\ StoreFrame

NextStore == SetHpfCutoff \/ SetLpfCutoff \/ ApplyPreset \/ ToggleFixedDistance
SpecStore == Init /\ [][NextStore]_vars

NextUI == DragHpf \/ DragLpf \/ ClickPreset \/ ClickFixedDistance
SpecUI == Init /\ [][NextUI]_vars

NextDistance == DragHpf \/ DragLpf \/ ClickPreset \/ ClickFixedDistance \/ SetFixedDistance
SpecDistance == Init /\ [][NextDistance]_vars

\* every operation of the store on the filter parameters, any argument
NextParams ==
    SetHpfCutoff \/ SetLpfCutoff \/ ApplyPreset \/ ToggleFixedDistance \/ SetFixedDistance
SpecParams == Init /\ [][NextParams]_vars

----------------------------------------------------------------------------
(* Silence detector operations as actions *)

\* history of a tick: what each channel got, and where its below-threshold run began
DataKind(freqData) ==
    IF freqData = NoSpectrum THEN "null"
    ELSE IF isBelowThreshold(freqData) THEN "below" ELSE "above"

RunStartAfter(c, freqData, currentTime) ==
    CASE DataKind(freqData) = "null"  -> runStart[c]
      [] DataKind(freqData) = "above" -> NULL
      [] DataKind(freqData) = "below" -> IF runStart[c] = NULL THEN currentTime ELSE runStart[c]

TickHistory(l, r, t) ==
    /\ lastData' = [left |-> DataKind(l), right |-> DataKind(r)]
    /\ runStart' = [left |-> RunStartAfter("left", l, t), right |-> RunStartAfter("right", r, t)]
    /\ prevSilence' = silenceState

\* a call of updateSilenceDetection by any caller, with any pair of spectra
UpdateSilenceDetection ==
    \E l \in Spectra \cup {NoSpectrum}, r \in Spectra \cup {NoSpectrum}, d \in Steps :
        /\ now + d <= MaxTime
        /\ now' = now + d
        /\ updateSilenceDetection(l, r, now')
        /\ TickHistory(l, r, now')
        /\ lastOp' = "tick"
        /\ UNCHANGED <<storeVars, sessionVars, storeOps, sessionHistory>>
        /\ UNCHANGED <<channelVars, routingVars, nodeVars, storeHistory, drawHistory>>
        /\ UNCHANGED <<loopVars, bandVars>>

Reset ==
    /\ reset
    /\ lastOp' = "reset"
    /\ lastData' = [c \in Channels |-> "none"]
    /\ runStart' = [c \in Channels |-> NULL]
    /\ prevSilence' = silenceState
    /\ UNCHANGED <<now, storeVars, sessionVars, storeOps, sessionHistory>>
    /\ UNCHANGED <<channelVars, routingVars, nodeVars, storeHistory, drawHistory>>
    /\ UNCHANGED <<loopVars, bandVars>>

NextDetector == UpdateSilenceDetection \/ Reset
SpecDetector == Init /\ [][NextDetector]_vars

\* the ticks of a running frame loop: each channel supplies a flat spectrum
\* or none, and performance.now() either repeats or has advanced
FlatOrNoSpectrum == FlatSpectra \cup {NoSpectrum}
\* milliseconds between two animation frames: on both sides of 1000/60 and of 1000/20
FrameSteps == {0, 10, 20, 60}

Tick(l, r, d) ==
    /\ now + d <= MaxTime
    /\ now' = now + d
    /\ updateSilenceDetection(l, r, now')
    /\ TickHistory(l, r, now')
    /\ lastOp' = "tick"
    /\ UNCHANGED <<storeVars, sessionVars, storeOps, sessionHistory>>
    /\ UNCHANGED <<channelVars, routingVars, nodeVars, storeHistory, drawHistory>>
    /\ UNCHANGED <<loopVars, bandVars>>

TickSameInstant ==
    \E l \in FlatOrNoSpectrum, r \in FlatOrNoSpectrum : Tick(l, r, 0)

TickLater ==
    \E l \in FlatOrNoSpectrum, r \in FlatOrNoSpectrum, d \in Steps \ {0} : Tick(l, r, d)

\* ticks keep arriving with advancing time, as long as the clock runs
NextTicks == TickSameInstant \/ TickLater \/ Reset
SpecTicks == Init /\ [][NextTicks]_vars /\ WF_vars(TickLater)

----------------------------------------------------------------------------
(* useAudioGraph: the audio session, and the draw loop that ticks the detector *)

SessionFrame ==
    /\ UNCHANGED <<storeVars, detectorVars, storeOps, detectorHistory>>
    /\ UNCHANGED <<channelMode, storeActiveChannels, storeHistory, drawHistory>>
    /\ UNCHANGED <<loopVars, bandVars>>

\* what only init() touches
GraphKept == UNCHANGED <<inputChannelCount, routingVars, nodeVars>>

\* history: a start() that follows a stop() has marked the session started
Started(x) ==
    CASE x = "restarting" -> "restarted"
      [] x = "none" -> "first"
      [] OTHER -> x

\* start() from its try block on, with the context in state ctx: a running
\* context is marked started at once, any other state awaits resume()
resumeOrMarkStarted(ctx, sess) ==
    IF ctx = "running"
    THEN /\ isStarted' = TRUE
         /\ startPc' = "idle"
         /\ session' = Started(sess)
    ELSE /\ startPc' = "resume"
         /\ isStarted' = isStarted
         /\ session' = sess

\* start() up to its first await: without a context init() creates one and
\* asks for the microphone
StartCall ==
    /\ startPc = "idle"
    /\ LET sess == IF session = "stopped" THEN "restarting" ELSE session
       IN  IF audioCtx = "none"
           THEN /\ audioCtx' \in {"suspended", "running"}
                /\ startPc' = "getUserMedia"
                /\ session' = sess
                /\ UNCHANGED isStarted
           ELSE /\ resumeOrMarkStarted(audioCtx, sess)
                /\ UNCHANGED audioCtx
    /\ lastOp' = "start"
    /\ UNCHANGED <<closing, analysers, isInitialized, hasPermission>>
    /\ GraphKept
    /\ SessionFrame

\* getUserMedia resolves: init() records the channel count of the stream,
\* builds the graph, applies the initial routing and returns to start()
GetUserMediaResolves ==
    /\ startPc = "getUserMedia"
    /\ hasPermission' = TRUE
    /\ analysers' = TRUE
    /\ isInitialized' = TRUE
    /\ \E actualChannels \in ChannelCounts :
        /\ setInputChannelCount(actualChannels)
        /\ createFilterNodes
        /\ UNCHANGED <<channelMode, storeActiveChannels>>
        /\ updateAudioRouting([left |-> TRUE, right |-> actualChannels >= 2])
    /\ resumeOrMarkStarted(audioCtx, session)
    /\ lastOp' = "init"
    /\ UNCHANGED <<audioCtx, closing>>
    /\ SessionFrame

\* getUserMedia rejects: init() records the error and returns to start()
GetUserMediaRejects ==
    /\ startPc = "getUserMedia"
    /\ resumeOrMarkStarted(audioCtx, session)
    /\ lastOp' = "initFailed"
    /\ UNCHANGED <<audioCtx, closing, analysers, isInitialized, hasPermission>>
    /\ GraphKept
    /\ SessionFrame

\* resume() settles: it rejects on a closed context and start() records the
\* error, otherwise the context runs and the session is marked started
ResumeSettles ==
    /\ startPc = "resume"
    /\ startPc' = "idle"
    /\ IF audioCtx = "closed"
       THEN /\ lastOp' = "startFailed"
            /\ UNCHANGED <<audioCtx, isStarted, session>>
       ELSE /\ audioCtx' = "running"
            /\ isStarted' = TRUE
            /\ session' = Started(session)
            /\ lastOp' = "started"
    /\ UNCHANGED <<closing, analysers, isInitialized, hasPermission>>
    /\ GraphKept
    /\ SessionFrame

stop ==
    /\ closing' = (closing \/ audioCtx \in {"suspended", "running"})
    /\ isStarted' = FALSE
    /\ isInitialized' = FALSE
    /\ UNCHANGED <<audioCtx, analysers, hasPermission, startPc>>

Stop ==
    /\ stop
    /\ session' = "stopped"
    /\ lastOp' = "stop"
    /\ GraphKept
    /\ SessionFrame

\* the context reaches the closed state some time after close() was called
CloseCompletes ==
    /\ closing
    /\ closing' = FALSE
    /\ audioCtx' = "closed"
    /\ lastOp' = "closed"
    /\ UNCHANGED <<analysers, isInitialized, isStarted, hasPermission, startPc, session>>
    /\ GraphKept
    /\ SessionFrame

\* variant: only a change of the left channel counts
channelsChanged_leftOnly(previousChannels, ac) ==
    previousChannels.left # ac.left

channelsChanged(previousChannels, ac) ==
    previousChannels.left # ac.left \/ previousChannels.right # ac.right

\* what is drawn, and so aggregated into bands: both spectra side by side,
\* or the spectrum of one channel
drawSelection(effectiveMode, ac) ==
    IF effectiveMode = "stereo" /\ ac.left /\ ac.right THEN "stereo"
    ELSE IF ac.left THEN "left" ELSE "right"

\* variant: the effective mode is read before the store takes the new channels
drawSingleModeRTA_staleMode ==
    LET previousChannels == storeActiveChannels
        changed == channelsChanged(previousChannels, activeChannels')
    IN  /\ setActiveChannels(activeChannels')
        /\ IF changed
           THEN updateAudioRouting(activeChannels')
           ELSE UNCHANGED routingVars
        /\ lastTick' = [previous |-> previousChannels,
                        computed |-> activeChannels',
                        routed |-> changed,
                        mode |-> getEffectiveChannelMode,
                        drawn |-> drawSelection(getEffectiveChannelMode, activeChannels')]

\* drawSingleModeRTA from the silence detection on, given the detector's
\* result of this tick in activeChannels': the store takes the new channels,
\* routing is re-applied on a change, then the effective mode is read and
\* the selection is drawn
drawSingleModeRTA ==
    LET previousChannels == storeActiveChannels
        changed == channelsChanged(previousChannels, activeChannels')
    IN  /\ setActiveChannels(activeChannels')
        /\ IF changed
           THEN updateAudioRouting(activeChannels')
           ELSE UNCHANGED routingVars
        /\ lastTick' = [previous |-> previousChannels,
                        computed |-> activeChannels',
                        routed |-> changed,
                        mode |-> getEffectiveChannelMode',
                        drawn |-> drawSelection(getEffectiveChannelMode', activeChannels')]

\* draw() while audio is started: both analysers exist, so both channels
\* supply a spectrum
drawRTAContent ==
    /\ isStarted
    /\ analysers
    /\ \E l \in FlatSpectra, r \in FlatSpectra, d \in Steps :
        /\ now + d <= MaxTime
        /\ now' = now + d
        /\ updateSilenceDetection(l, r, now')
        /\ TickHistory(l, r, now')
    /\ UNCHANGED <<storeVars, sessionVars, storeOps>>
    /\ UNCHANGED <<channelMode, inputChannelCount, nodeVars, storeHistory, lastResult>>
    /\ drawSingleModeRTA
    /\ lastOp' = "tick"
    /\ session' = IF session = "restarted" THEN "ticking" ELSE session
    /\ UNCHANGED bandVars

\* one frame of the draw loop while audio is started
DrawTick ==
    /\ drawRTAContent
    /\ UNCHANGED loopVars

NextSession ==
    \/ StartCall
    \/ GetUserMediaResolves
    \/ GetUserMediaRejects
    \/ ResumeSettles
    \/ Stop
    \/ CloseCompletes
    \/ DrawTick
SpecSession == Init /\ [][NextSession]_vars

----------------------------------------------------------------------------
(* Channel mode and routing, called by any caller with any argument *)

ChannelFrame ==
    /\ UNCHANGED <<storeVars, detectorVars, sessionVars, storeOps>>
    /\ UNCHANGED <<detectorHistory, sessionHistory, nodeVars, storeHistory, lastTick>>
    /\ UNCHANGED <<loopVars, bandVars>>

SetChannelMode ==
    \E mode \in ChannelModes :
        /\ setChannelMode(mode)
        /\ lastOp' = "setChannelMode"
        /\ UNCHANGED <<inputChannelCount, storeActiveChannels, routingVars, lastResult>>
        /\ ChannelFrame

SetInputChannelCount ==
    \E count \in AnyChannelCounts :
        /\ setInputChannelCount(count)
        /\ lastOp' = "setInputChannelCount"
        /\ UNCHANGED <<channelMode, storeActiveChannels, routingVars, lastResult>>
        /\ ChannelFrame

SetActiveChannels ==
    \E channels \in AnyActiveChannels :
        /\ setActiveChannels(channels)
        /\ lastOp' = "setActiveChannels"
        /\ UNCHANGED <<channelMode, inputChannelCount, routingVars, lastResult>>
        /\ ChannelFrame

GetEffectiveChannelMode ==
    /\ lastResult' = getEffectiveChannelMode
    /\ lastOp' = "getEffectiveChannelMode"
    /\ UNCHANGED <<channelVars, routingVars>>
    /\ ChannelFrame

UpdateAudioRouting ==
    \E ac \in AnyActiveChannels :
        /\ ChannelFrame
        /\ UNCHANGED <<channelVars, lastResult>>
        /\ updateAudioRouting(ac)
        /\ lastOp' = "updateAudioRouting"

NextRouting ==
    \/ StartCall
    \/ GetUserMediaResolves
    \/ ResumeSettles
    \/ SetChannelMode
    \/ SetInputChannelCount
    \/ SetActiveChannels
    \/ GetEffectiveChannelMode
    \/ UpdateAudioRouting
SpecRouting == Init /\ [][NextRouting]_vars

\* the filter controls of the user interface, before and after the graph is built
NextGraph ==
    \/ StartCall
    \/ GetUserMediaResolves
    \/ ResumeSettles
    \/ DragHpf
    \/ DragLpf
    \/ ClickPreset
    \/ ClickFixedDistance
SpecGraph == Init /\ [][NextGraph]_vars

\* a session that is started once and then ticks, under any channel mode
NextDraw ==
    \/ StartCall
    \/ GetUserMediaResolves
    \/ ResumeSettles
    \/ SetChannelMode
    \/ DrawTick
SpecDraw == Init /\ [][NextDraw]_vars

----------------------------------------------------------------------------
(* useRtaCanvas: the animation frame loop *)

\* the browser: hands out a new handle and keeps the request pending
requestAnimationFrame(a) ==
    [a EXCEPT !.pending = @ \cup {a.nextHandle}, !.nextHandle = @ + 1]

\* the browser: a handle that is not pending is ignored
cancelAnimationFrame(a, id) == [a EXCEPT !.pending = @ \ {id}]

\* currentTime - lastDrawTime < targetInterval, with targetInterval 1000/20 in
\* power save mode and 1000/60 otherwise
throttled(currentTime, powerSaveMode) ==
    IF powerSaveMode
    THEN (currentTime - animation.lastDrawTime) * 20 < 1000
    ELSE (currentTime - animation.lastDrawTime) * 60 < 1000

\* animationId = requestAnimationFrame(animate)
scheduleNext_dropsId(a) == requestAnimationFrame(a)

scheduleNext(a) == [requestAnimationFrame(a) EXCEPT !.animationId = a.nextHandle]

stopAnimation(a) ==
    IF a.animationId # 0
    THEN [cancelAnimationFrame(a, a.animationId) EXCEPT !.animationId = 0]
    ELSE a

\* what a frame leaves alone when draw() returns at once or is not called
LoopFrame ==
    /\ UNCHANGED <<storeVars, sessionVars, storeOps, silenceState, activeChannels>>
    /\ UNCHANGED <<detectorHistory, sessionHistory, channelVars, routingVars, nodeVars>>
    /\ UNCHANGED <<storeHistory, drawHistory, bandVars>>

FrameHistory(kind, drew) ==
    animationHistory' =
        [animationHistory EXCEPT
            !.lastFrame = kind,
            !.ranAfterStop = @ \/ animationHistory.stopped # "no",
            !.drewAfterStop = @ \/ (drew /\ animationHistory.stopped # "no")]

\* onMounted, in nextTick: startAnimation(draw)
StartAnimation ==
    /\ ~animation.started
    /\ animation.nextHandle <= MaxFrames
    /\ animation' = [scheduleNext(animation) EXCEPT !.started = TRUE]
    /\ lastOp' = "startAnimation"
    /\ UNCHANGED <<animationHistory, now>>
    /\ LoopFrame

\* the browser runs animate() for a pending request; the throttle skips the draw
FrameSkipped ==
    \E id \in animation.pending, d \in FrameSteps, powerSaveMode \in BOOLEAN :
        /\ now + d <= MaxTime
        /\ now' = now + d
        /\ throttled(now', powerSaveMode)
        /\ animation.nextHandle <= MaxFrames
        /\ animation' = scheduleNext(cancelAnimationFrame(animation, id))
        /\ FrameHistory("skipped", FALSE)
        /\ lastOp' = "frameSkipped"
        /\ LoopFrame

\* the browser runs animate() for a pending request; draw() is called
FrameDrawn ==
    \E id \in animation.pending, powerSaveMode \in BOOLEAN :
        /\ animation.nextHandle <= MaxFrames
        /\ IF isStarted /\ analysers
           THEN drawRTAContent
           ELSE /\ \E d \in FrameSteps :
                    /\ now + d <= MaxTime
                    /\ now' = now + d
                /\ lastOp' = "frameDrawn"
                /\ LoopFrame
        /\ ~throttled(now', powerSaveMode)
        /\ animation' = [scheduleNext(cancelAnimationFrame(animation, id))
                            EXCEPT !.lastDrawTime = now']
        /\ FrameHistory("drawn", TRUE)

\* onBeforeUnmount: stopAnimation()
StopAnimation ==
    /\ animationHistory.stopped = "no"
    /\ animation' = stopAnimation(animation)
    /\ animationHistory' =
            [animationHistory EXCEPT
                !.stopped = IF animation.started THEN "betweenFrames" ELSE "beforeStart"]
    /\ lastOp' = "stopAnimation"
    /\ UNCHANGED now
    /\ LoopFrame

\* a mounted canvas whose audio session is started once
NextLoop ==
    \/ StartAnimation
    \/ FrameSkipped
    \/ FrameDrawn
    \/ StopAnimation
    \/ StartCall
    \/ GetUserMediaResolves
    \/ ResumeSettles
SpecLoop == Init /\ [][NextLoop]_vars

----------------------------------------------------------------------------
(* utils/logBands called with any spectrum, rate, size and bands *)

BandFrame ==
    /\ UNCHANGED <<storeVars, detectorVars, sessionVars, storeOps>>
    /\ UNCHANGED <<detectorHistory, sessionHistory, channelVars, routingVars, nodeVars>>
    /\ UNCHANGED <<storeHistory, drawHistory, loopVars>>

\* the arguments of one call: any spectrum of length fftSize / 2, any rate,
\* size and bands
InitAggregate ==
    /\ Constructed
    /\ lastBands = NoBands
    /\ \E fftSize \in FftSizes, sampleRate \in SampleRates, bands \in BandLists :
        \E data \in [1..(fftSize \div 2) -> BinDb] :
            lastAggregate = [NoAggregate EXCEPT !.data = data, !.sampleRate = sampleRate,
                                                !.fftSize = fftSize, !.bands = bands]

\* the spectrum aggregated with each of the three reducers
AggregateBands ==
    /\ lastOp = "init"
    /\ LET a == lastAggregate
       IN  lastAggregate' =
            [a EXCEPT
                !.ranges = [i \in 1..Len(a.bands) |-> binRange(a.bands[i], a.sampleRate, a.fftSize)],
                !.mean = aggregateBands(a.data, a.sampleRate, a.fftSize, a.bands, "mean"),
                !.max = aggregateBands(a.data, a.sampleRate, a.fftSize, a.bands, "max"),
                !.rms = aggregateBands(a.data, a.sampleRate, a.fftSize, a.bands, "rms")]
    /\ lastOp' = "aggregateBands"
    /\ UNCHANGED lastBands
    /\ BandFrame

SpecAggregate == InitAggregate /\ [][AggregateBands]_vars

\* the arguments of one call: any 0 < fMin < fMax and any band count
InitLogBands ==
    /\ Constructed
    /\ lastAggregate = NoAggregate
    /\ \E fMin \in BandLimits, fMax \in BandLimits, bands \in BandCounts :
        /\ fMin < fMax
        /\ lastBands = [fMin |-> fMin, fMax |-> fMax, bands |-> bands, edges |-> <<>>]

MakeLogBands ==
    /\ lastOp = "init"
    /\ \E pw \in PowTablesUpTo(fdiv(lastBands.fMax, lastBands.fMin),
                              lastBands.bands, lastBands.bands) :
        lastBands' = [lastBands EXCEPT
                        !.edges = makeLogBands(lastBands.fMin, lastBands.fMax, lastBands.bands, pw)]
    /\ lastOp' = "makeLogBands"
    /\ UNCHANGED lastAggregate
    /\ BandFrame

SpecLogBands == InitLogBands /\ [][MakeLogBands]_vars

----------------------------------------------------------------------------
(* Filter parameter claims *)

\* C1: after any sequence of setHpfCutoff, setLpfCutoff, applyPreset and
\* toggleFixedDistance calls with arbitrary arguments,
\* 20 <= hpfCutoff < lpfCutoff <= 20000.
C1_CutoffsOrderedAnyInput ==
    /\ 20 <= hpfCutoff
    /\ hpfCutoff < lpfCutoff
    /\ lpfCutoff <= 20000

\* C2: with drag arguments in [20, 20000], built-in presets and the toggle
\* only, after every mutation 20 <= hpfCutoff < lpfCutoff <= 20000.
C2_CutoffsOrderedUI ==
    lastOp # "init" =>
        (20 <= hpfCutoff /\ hpfCutoff < lpfCutoff /\ lpfCutoff <= 20000)

\* C3: in every state with fixedDistanceEnabled, lpfCutoff - hpfCutoff
\* equals fixedDistance exactly.
C3_FixedGapExact ==
    fixedDistanceEnabled => lpfCutoff - hpfCutoff = fixedDistance

\* C4: when setFixedDistance returns in fixed mode, lpfCutoff - hpfCutoff
\* equals the new fixedDistance.
C4_SetFixedDistanceKeepsGap ==
    (lastOp = "setFixedDistance" /\ fixedDistanceEnabled) =>
        lpfCutoff - hpfCutoff = fixedDistance

----------------------------------------------------------------------------
(* Silence detector claims *)

\* time since the first tick of the channel's current below-threshold run
Elapsed(c) == now - runStart[c]
\* the channel's own detection on the last tick, before anything is forced
RawInactive(c) == lastData[c] = "null" \/ silenceState[c].isSilent
\* the at-least-one-active rule applies to the channel on the last tick
Forced(c) == RawInactive(Other(c)) /\ (c = "left" \/ lastData["left"] = "null")
InRunFor500(c) == lastOp = "tick" /\ lastData[c] = "below" /\ Elapsed(c) >= 500

\* C5 as stated: a channel below threshold on every tick of a run is reported
\* inactive on every tick at which the run has lasted 500ms or more.
C5_SilentAfter500Reported ==
    \A c \in Channels : InRunFor500(c) => ~activeChannels[c]

\* C5 as amended: on such a tick the channel is SILENT, and it is reported
\* inactive unless the at-least-one-active rule forces it (the other channel
\* is inactive too, and the channel is left, or right with a null left).
C5_SilentAfter500UnlessForced ==
    \A c \in Channels :
        InRunFor500(c) => (silenceState[c].isSilent /\ (activeChannels[c] <=> Forced(c)))

C5_Witness ==
    /\ InRunFor500("left")
    /\ ~activeChannels["left"]
    /\ activeChannels["right"]

\* C6: a channel with a spectrum is reported active on every tick at which
\* its current below-threshold run has lasted less than 500ms, the first
\* tick of the run included.
C6_ActiveBefore500 ==
    \A c \in Channels :
        (lastOp = "tick" /\ lastData[c] = "below" /\ Elapsed(c) < 500) => activeChannels[c]

C6_Witness ==
    /\ lastOp = "tick"
    /\ lastData["right"] = "below"
    /\ Elapsed("right") > 0
    /\ Elapsed("right") < 500
    /\ prevSilence["right"].silenceStartTime # NULL
    /\ activeChannels["right"]

\* C7: a tick at or above threshold leaves the channel ACTIVE (no start time,
\* not silent) whatever it was before and reports it active on that tick; a
\* below-threshold run is always timed from its own first tick.
C7_RecoveryImmediate ==
    \A c \in Channels :
        /\ (lastOp = "tick" /\ lastData[c] = "above") =>
              /\ silenceState[c] = [isSilent |-> FALSE, silenceStartTime |-> NULL]
              /\ activeChannels[c]
        /\ (lastOp = "tick" /\ lastData[c] = "below") =>
              silenceState[c].silenceStartTime = runStart[c]

C7_Witness ==
    /\ lastOp = "tick"
    /\ lastData["left"] = "above"
    /\ prevSilence["left"].isSilent
    /\ activeChannels["left"]

\* C8: when at least one spectrum is non-null the result has left or right
\* true; when both channels are inactive by themselves, left is forced if its
\* spectrum is non-null, and right is forced only when the left one is null.
C8_AtLeastOneActive ==
    lastOp = "tick" =>
        /\ (lastData["left"] # "null" \/ lastData["right"] # "null") =>
              (activeChannels["left"] \/ activeChannels["right"])
        /\ (RawInactive("left") /\ RawInactive("right") /\ lastData["left"] # "null") =>
              (activeChannels["left"] /\ ~activeChannels["right"])
        /\ (RawInactive("right") /\ activeChannels["right"]) =>
              (lastData["left"] = "null" /\ lastData["right"] # "null")

C8_Witness ==
    /\ lastOp = "tick"
    /\ lastData["left"] = "below"
    /\ lastData["right"] = "below"
    /\ silenceState["left"].isSilent
    /\ silenceState["right"].isSilent
    /\ activeChannels = [left |-> TRUE, right |-> FALSE]

\* C9: a channel whose spectrum is null on a tick is reported inactive; with
\* both spectra null the result is {left: false, right: false}.
C9_NullIsInactive ==
    lastOp = "tick" =>
        \A c \in Channels : lastData[c] = "null" => ~activeChannels[c]

C9_Witness ==
    /\ lastOp = "tick"
    /\ lastData = [left |-> "null", right |-> "null"]
    /\ activeChannels = [left |-> FALSE, right |-> FALSE]

----------------------------------------------------------------------------
(* Session claims *)

\* C10: after stop() followed by start(), before the first tick of the new
\* session both channels are at {isSilent: false, silenceStartTime: null}.
C10_RestartResetsSilence ==
    session = "restarted" => silenceState = DefaultSilence

----------------------------------------------------------------------------
(* Channel mode and routing claims *)

\* C11: getEffectiveChannelMode returns mono for channelMode mono, stereo
\* for channelMode stereo, and for auto it returns stereo exactly when
\* inputChannelCount >= 2 and both channels are active, else mono.
C11_EffectiveMode ==
    lastOp = "getEffectiveChannelMode" =>
        /\ channelMode = "mono" => lastResult = "mono"
        /\ channelMode = "stereo" => lastResult = "stereo"
        /\ channelMode = "auto" =>
            /\ lastResult \in {"mono", "stereo"}
            /\ lastResult = "stereo" <=>
                   (inputChannelCount >= 2 /\ storeActiveChannels.left
                                           /\ storeActiveChannels.right)

\* auto, both channels active, one input channel: mono
C11_Witness ==
    /\ lastOp = "getEffectiveChannelMode"
    /\ channelMode = "auto"
    /\ storeActiveChannels = [left |-> TRUE, right |-> TRUE]
    /\ inputChannelCount = 1
    /\ lastResult = "mono"

\* C13: in effective mode mono, updateAudioRouting connects exactly one
\* output analyser to both merger inputs: the right one if only right is
\* active, the left one in every other case, neither active included.
C13_MonoRoutesOneAnalyser ==
    lastRouting.mode = "mono" =>
        lastRouting.connects =
            IF lastRouting.arg.right /\ ~lastRouting.arg.left
            THEN {<<"right", 0>>, <<"right", 1>>}
            ELSE {<<"left", 0>>, <<"left", 1>>}

----------------------------------------------------------------------------
(* Draw loop claims *)

\* C12: in every tick of the draw loop updateAudioRouting is called exactly
\* when the channels computed in this tick differ, in left or in right, from
\* the channels the previous tick left in the store (the initial store value
\* before the first tick); a tick with equal channels makes no routing call.
C12_RoutingOnChangeOnly ==
    [][lastOp' = "tick" =>
          (lastTick'.routed <=>
              \/ activeChannels'.left # lastTick.computed.left
              \/ activeChannels'.right # lastTick.computed.right)]_vars

\* the right channel went silent between two ticks and routing was re-applied
C12_Witness ==
    /\ lastOp = "tick"
    /\ lastTick.previous = [left |-> TRUE, right |-> TRUE]
    /\ lastTick.computed = [left |-> TRUE, right |-> FALSE]
    /\ lastTick.routed
    /\ lastRouting.arg = [left |-> TRUE, right |-> FALSE]

\* C15: within one tick the silence detection completes first, then the
\* store takes its result, then routing is re-applied on a change, then the
\* effective mode is read, then the selection is drawn: the store, the
\* routing call, the mode and the drawn selection all follow from the
\* channels computed in this tick, never from those of the previous tick.
C15_TickOrder ==
    lastOp = "tick" =>
        LET mode == IF channelMode # "auto" THEN channelMode
                    ELSE IF inputChannelCount >= 2 /\ activeChannels.left
                                                   /\ activeChannels.right
                         THEN "stereo" ELSE "mono"
        IN  /\ lastTick.computed = activeChannels
            /\ storeActiveChannels = activeChannels
            /\ lastTick.routed =>
                   (lastRouting.arg = activeChannels /\ lastRouting.mode = mode)
            /\ lastTick.mode = mode
            /\ lastTick.drawn = "stereo" <=>
                   (mode = "stereo" /\ activeChannels.left /\ activeChannels.right)
            /\ lastTick.drawn = "left" => activeChannels.left
            /\ lastTick.drawn = "right" => (activeChannels.right /\ ~activeChannels.left)

\* the right channel became active in this tick: the mode read and the
\* selection drawn are stereo already
C15_Witness ==
    /\ lastOp = "tick"
    /\ channelMode = "auto"
    /\ lastTick.previous = [left |-> TRUE, right |-> FALSE]
    /\ activeChannels = [left |-> TRUE, right |-> TRUE]
    /\ lastTick.routed
    /\ lastTick.mode = "stereo"
    /\ lastTick.drawn = "stereo"

----------------------------------------------------------------------------
(* Filter node claims *)

\* C16: every cutoff value written to a filter node, at node creation, by
\* the setters of useAudioGraph or by the synchronisation after a preset or
\* a toggle, lies within [20, 20000].
C16_NodeValuesInRange ==
    \A c \in Channels :
        /\ \A i \in DOMAIN hpfNodes[c] :
               20 <= hpfNodes[c][i] /\ hpfNodes[c][i] <= 20000
        /\ \A i \in DOMAIN lpfNodes[c] :
               20 <= lpfNodes[c][i] /\ lpfNodes[c][i] <= 20000

\* C17: when useAudioGraph.setHpfCutoff or setLpfCutoff returns, in free and
\* in fixed mode, every HPF stage of both channels holds the store's
\* hpfCutoff and every LPF stage holds the store's lpfCutoff.
C17_NodesFollowStore ==
    lastOp \in {"setHpfCutoff", "setLpfCutoff"} =>
        \A c \in Channels :
            /\ \A i \in DOMAIN hpfNodes[c] : hpfNodes[c][i] = hpfCutoff
            /\ \A i \in DOMAIN lpfNodes[c] : lpfNodes[c][i] = lpfCutoff

----------------------------------------------------------------------------
(* Filter setter and toggle claims *)

\* C18: in fixed mode with fixedDistance <= 19980, setHpfCutoff(f) sets
\* hpfCutoff = max(20, min(20000 - fixedDistance, f)) and lpfCutoff =
\* hpfCutoff + fixedDistance, and setLpfCutoff(f) sets lpfCutoff =
\* max(20 + fixedDistance, min(20000, f)) and hpfCutoff = lpfCutoff -
\* fixedDistance.
C18_FixedModeSetters ==
    (prevStore.enabled /\ prevStore.distance <= 19980) =>
        /\ lastOp = "setHpfCutoff" =>
            /\ hpfCutoff = Max(20, Min(20000 - prevStore.distance, lastArg))
            /\ lpfCutoff = hpfCutoff + prevStore.distance
        /\ lastOp = "setLpfCutoff" =>
            /\ lpfCutoff = Max(20 + prevStore.distance, Min(20000, lastArg))
            /\ hpfCutoff = lpfCutoff - prevStore.distance

\* the gap 11920 captured from hpf=80, lpf=12000, then setHpfCutoff(15000)
C18_Witness ==
    /\ lastOp = "setHpfCutoff"
    /\ lastArg = 15000
    /\ prevStore = [hpf |-> 80, lpf |-> 12000, enabled |-> TRUE, distance |-> 11920]
    /\ hpfCutoff = 8080
    /\ lpfCutoff = 20000

\* C19: in free mode setHpfCutoff(f) assigns hpfCutoff = max(20,
\* min(lpfCutoff - minFilterDistance, f)) and setLpfCutoff(f) assigns
\* lpfCutoff = max(hpfCutoff + minFilterDistance, min(20000, f)); each
\* leaves the other cutoff, fixedDistance and fixedDistanceEnabled unchanged.
C19_FreeModeSetters ==
    ~prevStore.enabled =>
        /\ lastOp = "setHpfCutoff" =>
            /\ hpfCutoff = Max(20, Min(prevStore.lpf - minFilterDistance, lastArg))
            /\ lpfCutoff = prevStore.lpf
            /\ fixedDistance = prevStore.distance
            /\ fixedDistanceEnabled = prevStore.enabled
        /\ lastOp = "setLpfCutoff" =>
            /\ lpfCutoff = Max(prevStore.hpf + minFilterDistance, Min(20000, lastArg))
            /\ hpfCutoff = prevStore.hpf
            /\ fixedDistance = prevStore.distance
            /\ fixedDistanceEnabled = prevStore.enabled

\* setHpfCutoff(5) with lpfCutoff = 12000 gives 20
C19_Witness ==
    /\ lastOp = "setHpfCutoff"
    /\ lastArg = 5
    /\ ~prevStore.enabled
    /\ prevStore.lpf = 12000
    /\ hpfCutoff = 20
    /\ lpfCutoff = 12000

\* C20: toggleFixedDistance leaves hpfCutoff and lpfCutoff as they were;
\* enabling sets fixedDistance = max(minFilterDistance, lpfCutoff -
\* hpfCutoff), disabling leaves fixedDistance as it was.
C20_ToggleKeepsCutoffs ==
    lastOp = "toggleFixedDistance" =>
        /\ hpfCutoff = prevStore.hpf
        /\ lpfCutoff = prevStore.lpf
        /\ fixedDistanceEnabled = ~prevStore.enabled
        /\ fixedDistanceEnabled =>
               fixedDistance = Max(minFilterDistance, prevStore.lpf - prevStore.hpf)
        /\ ~fixedDistanceEnabled => fixedDistance = prevStore.distance

\* enabling at hpf=80, lpf=15000 with fixedDistance 1000 before
C20_Witness ==
    /\ lastOp = "toggleFixedDistance"
    /\ fixedDistanceEnabled
    /\ prevStore.distance = 1000
    /\ hpfCutoff = 80
    /\ lpfCutoff = 15000
    /\ fixedDistance = 14920

----------------------------------------------------------------------------
(* Preset claim *)

\* C21: applyPreset(preset) sets hpfCutoff = preset.hpf; in free mode it
\* sets lpfCutoff = preset.lpf, in fixed mode lpfCutoff = preset.hpf + the
\* gap between the cutoffs before the call, so the gap is kept and the
\* preset's own gap is ignored.
C21_ApplyPreset ==
    lastOp = "applyPreset" =>
        /\ hpfCutoff = lastArg.hpf
        /\ ~prevStore.enabled => lpfCutoff = lastArg.lpf
        /\ prevStore.enabled =>
            /\ lpfCutoff = lastArg.hpf + (prevStore.lpf - prevStore.hpf)
            /\ lpfCutoff - hpfCutoff = prevStore.lpf - prevStore.hpf

\* fixed mode with the gap 11920: Treble (4000..20000) gives 4000..15920
C21_Witness ==
    /\ lastOp = "applyPreset"
    /\ prevStore = [hpf |-> 80, lpf |-> 12000, enabled |-> TRUE, distance |-> 11920]
    /\ lastArg = FILTER_PRESETS[4]
    /\ hpfCutoff = 4000
    /\ lpfCutoff = 15920

----------------------------------------------------------------------------
(* Silence state machine claims *)

\* C26: while a channel's spectrum is below the threshold on the ticks of a
\* run, silenceStartTime stays at the time of the run's first tick and
\* isSilent is true exactly on the ticks at which 500ms or more have passed
\* since then; and when ticks keep arriving with advancing time, a channel
\* whose level stays below the threshold eventually is SILENT.
C26_RunBecomesSilent ==
    /\ [](\A c \in Channels :
            (lastOp = "tick" /\ lastData[c] = "below") =>
                /\ silenceState[c].silenceStartTime = runStart[c]
                /\ silenceState[c].isSilent <=>
                       (now - runStart[c] >= SILENCE_DURATION_MS))
    /\ \A c \in Channels :
          (/\ lastOp = "tick"
           /\ lastData[c] = "below"
           /\ runStart[c] + SILENCE_DURATION_MS + 200 <= MaxTime)
              ~> (silenceState[c].isSilent \/ lastData[c] # "below")

\* the right channel was SILENT before a later below-threshold tick and still is
C26_Witness ==
    /\ lastOp = "tick"
    /\ lastData["right"] = "below"
    /\ prevSilence["right"].isSilent
    /\ silenceState["right"].isSilent
    /\ silenceState["right"].silenceStartTime = runStart["right"]
    /\ now - runStart["right"] > SILENCE_DURATION_MS

\* C27: in every reachable state of each channel isSilent implies a start
\* time: the channel is ACTIVE (no start, not silent), PENDING_SILENCE
\* (start, not silent) or SILENT (start, silent), under any sequence of
\* updateSilenceDetection and reset calls.
C27_SilentHasStartTime ==
    \A c \in Channels :
        silenceState[c].isSilent => silenceState[c].silenceStartTime # NULL

\* a SILENT channel receives a level above the threshold and is ACTIVE again
C27_Witness ==
    /\ lastOp = "tick"
    /\ prevSilence["left"].isSilent
    /\ lastData["left"] = "above"
    /\ ~silenceState["left"].isSilent
    /\ silenceState["left"].silenceStartTime = NULL

----------------------------------------------------------------------------
(* Audio graph claims *)

\* C29: after updateAudioRouting has returned, the analyser-to-merger
\* connections of the graph are exactly the connect calls of that routing:
\* no connection of an earlier routing survives, also when one analyser was
\* not connected before the call.
C29_ConnectionsAreThePlan ==
    lastRouting.mode # "none" => connections = lastRouting.connects

\* C30: audioStore.isStarted is true only while isInitialized is true.
C30_StartedOnlyInitialized ==
    isStarted => isInitialized

----------------------------------------------------------------------------
(* Animation loop claim *)

\* C25: once stopAnimation() has been called between frames, no animation
\* frame request of the loop is pending, animate() does not run again and the
\* draw callback is not invoked again, whether the last frame was drawn or
\* skipped by the throttle.
C25_StopEndsLoop ==
    animationHistory.stopped = "betweenFrames" =>
        /\ animation.pending = {}
        /\ ~animationHistory.ranAfterStop
        /\ ~animationHistory.drewAfterStop

\* the loop was stopped right after a frame that the throttle skipped, having
\* drawn before
C25_Witness ==
    /\ animationHistory.stopped = "betweenFrames"
    /\ animationHistory.lastFrame = "skipped"
    /\ animation.lastDrawTime > 0
    /\ lastOp = "stopAnimation"

----------------------------------------------------------------------------
(* Band aggregation claims *)

InDisplayRange(v) == v.k # "nan" /\ ~Less(v, Db(-100, 1)) /\ ~Less(Db(0, 1), v)

\* C22: for each reducer (mean, max, rms), every spectrum of length
\* fftSize / 2 and every sample rate and FFT size, aggregateBands returns one
\* value per band and every value lies in [-100, 0] dB, also when bins are
\* above 0 dB, below -100 dB or silent.
C22_OnePerBandInRange ==
    lastOp = "aggregateBands" =>
        \A result \in {lastAggregate.mean, lastAggregate.max, lastAggregate.rms} :
            /\ Len(result) = Len(lastAggregate.bands)
            /\ \A i \in 1..Len(result) : InDisplayRange(result[i])

\* a spectrum with a bin above 0 dB and a bin below -100 dB, two bands, one
\* clamped from above and the other from below
C22_Witness ==
    /\ lastOp = "aggregateBands"
    /\ lastAggregate.fftSize = 8 /\ lastAggregate.sampleRate = 8
    /\ lastAggregate.data = <<0, 10, -120, -60>>
    /\ lastAggregate.bands = <<LogBandEdge(1, 3), LogBandEdge(3, 9)>>
    /\ lastAggregate.max = <<Db(0, 1), Db(-60, 1)>>
    /\ lastAggregate.mean = <<Db(-110, 2), Db(-60, 1)>>
    /\ lastAggregate.rms = <<Db(0, 1), Power(0, 1000000, 1)>>

\* C23: for the same spectrum, sample rate, FFT size and bands, every band
\* value of the max reducer is greater than or equal to the value of the mean
\* reducer for that band.
C23_MaxAtLeastMean ==
    lastOp = "aggregateBands" =>
        \A i \in 1..Len(lastAggregate.bands) :
            /\ lastAggregate.max[i].k # "nan"
            /\ lastAggregate.mean[i].k # "nan"
            /\ ~Less(lastAggregate.max[i], lastAggregate.mean[i])

\* a band over three bins whose maximum is strictly above its mean, both
\* inside the display range
C23_Witness ==
    /\ lastOp = "aggregateBands"
    /\ lastAggregate.ranges[1] = [k0 |-> 0, k1 |-> 3]
    /\ lastAggregate.max[1] = Db(0, 1)
    /\ lastAggregate.mean[1] = Db(-120, 3)
    /\ Less(lastAggregate.mean[1], lastAggregate.max[1])

\* C28: for every band, sample rate and FFT size the bin range [k0, k1) that
\* aggregateBands reduces over satisfies 0 <= k0 < k1 <= fftSize / 2, and
\* every index read lies inside a spectrum of length fftSize / 2, also for a
\* band that lies entirely above the Nyquist frequency.
C28_BinRangeInsideSpectrum ==
    lastOp = "aggregateBands" =>
        \A i \in 1..Len(lastAggregate.bands) :
            LET r == lastAggregate.ranges[i]
            IN  /\ 0 <= r.k0
                /\ r.k0 < r.k1
                /\ r.k1 <= lastAggregate.fftSize \div 2
                /\ Undefined \notin BinsRead(lastAggregate.data, r.k0, r.k1)

\* a band entirely above the Nyquist frequency reduces over the last bin
C28_Witness ==
    /\ lastOp = "aggregateBands"
    /\ lastAggregate.fftSize = 8
    /\ 2 * lastAggregate.bands[1].fLow > lastAggregate.sampleRate
    /\ lastAggregate.ranges[1] = [k0 |-> 3, k1 |-> 4]

----------------------------------------------------------------------------
(* Logarithmic band claim *)

\* C24 as stated: for every band count >= 1 and 0 < fMin < fMax, makeLogBands
\* returns exactly that many bands, contiguous (fHigh of a band equals fLow of
\* the next), strictly increasing (fLow < fCenter < fHigh), the first fLow
\* equal to fMin and the last fHigh equal to fMax.
C24_BandsExact ==
    lastOp = "makeLogBands" =>
        LET e == lastBands.edges
        IN  /\ Len(e) = lastBands.bands
            /\ \A j \in 1..(Len(e) - 1) : e[j].fHigh = e[j + 1].fLow
            /\ \A j \in 1..Len(e) : e[j].fLow < e[j].fCenter /\ e[j].fCenter < e[j].fHigh
            /\ e[1].fLow = lastBands.fMin
            /\ e[Len(e)].fHigh = lastBands.fMax

Between(x, a, b) == (a <= x /\ x <= b) \/ (b <= x /\ x <= a)

\* C24 amended: makeLogBands returns exactly that many bands, contiguous, the
\* first fLow equal to fMin; the last fHigh is fMin * (fMax / fMin) as rounded,
\* within one unit in the last place of fMax; every fCenter lies between the
\* fLow and the fHigh of its band, ends included; every edge lies between
\* fMin and the last fHigh.
C24_BandsWithinRounding ==
    lastOp = "makeLogBands" =>
        LET e == lastBands.edges
            last == e[Len(e)].fHigh
        IN  /\ Len(e) = lastBands.bands
            /\ \A j \in 1..(Len(e) - 1) : e[j].fHigh = e[j + 1].fLow
            /\ e[1].fLow = lastBands.fMin
            /\ last = fmul(lastBands.fMin, fdiv(lastBands.fMax, lastBands.fMin))
            /\ Between(last, lastBands.fMax - Ulp(lastBands.fMax),
                              lastBands.fMax + Ulp(lastBands.fMax))
            /\ \A j \in 1..Len(e) :
                /\ Between(e[j].fCenter, e[j].fLow, e[j].fHigh)
                /\ Between(e[j].fLow, lastBands.fMin, last)
                /\ Between(e[j].fHigh, lastBands.fMin, last)

\* one band asked for, and its fHigh is not fMax
C24_Witness ==
    /\ lastOp = "makeLogBands"
    /\ lastBands.bands = 1
    /\ lastBands.edges[1].fLow = lastBands.fMin
    /\ lastBands.edges[1].fHigh # lastBands.fMax

====
